---- MODULE Spec2Model ----
(***************************************************************************)
(* Request-to-recipe pipeline of Today's-recipe-AI.                        *)
(*                                                                         *)
(* The repository holds several parallel copies of the same pipeline:      *)
(*   Netlify functions  netlify/functions/{analyze-image,generate-recipe}  *)
(*   Vercel handlers    api/{analyze-image,generate-recipe}, and the older *)
(*                      analyze-image handler of unnamed/part_003          *)
(*   Express routes     server.ts and its later version unnamed/part_000   *)
(* One request is handled at a time: a handler runs up to its single       *)
(* `await generateContent(...)`, the provider answers (text or error), and *)
(* the handler resumes and sends its response.                             *)
(*                                                                         *)
(* Texts (provider error messages) are sequences of one-character strings, *)
(* so that String.includes and the retry regex are computed on characters. *)
(* A message the code writes itself (a literal in the source) is a         *)
(* one-element sequence holding the whole literal.                         *)
(***************************************************************************)
EXTENDS Integers, Sequences, FiniteSets, TLC

\* ------------------------------------------------------------------ bounds
\* Provider error texts are concatenations of at most MaxFrags fragments.
MaxFrags == 2
\* A multipart body carries at most MaxFiles file parts.
MaxFiles == 2
\* A request body (its image part, its JSON text) has at most MaxBodyMB
\* megabytes and arrives in chunks of at most MaxChunkMB.
MaxBodyMB == 12
MaxChunkMB == 3

\* ------------------------------------------------------- character strings
K_429 == <<"4","2","9">>
K_quota == <<"q","u","o","t","a">>
K_expired == <<"e","x","p","i","r","e","d">>
K_renew == <<"r","e","n","e","w">>
K_leaked == <<"l","e","a","k","e","d">>
K_APIkey == <<"A","P","I"," ","k","e","y">>
K_INVALID == <<"I","N","V","A","L","I","D">>
K_referer == <<"r","e","f","e","r","e","r">>
K_timedout == <<"t","i","m","e","d"," ","o","u","t">>
K_Timeout == <<"T","i","m","e","o","u","t">>
K_Sandbox == <<"S","a","n","d","b","o","x">>
K_timeout == <<"t","i","m","e","o","u","t">>
K_tooklong == <<"t","o","o","k"," ","t","o","o"," ","l","o","n","g">>
K_size == <<"s","i","z","e">>
K_limit == <<"l","i","m","i","t">>
K_key == <<"k","e","y">>
K_API == <<"A","P","I">>
K_retryin == <<"r","e","t","r","y"," ","i","n"," ">>

\* Fragments of provider error texts.
F_retry12_5 == <<"r","e","t","r","y"," ","i","n"," ","1","2",".","5","s">>
F_retry5 == <<"r","e","t","r","y"," ","i","n"," ","5","s">>
F_retry7 == <<"r","e","t","r","y"," ","i","n"," ","7">>
F_retry0 == <<"r","e","t","r","y"," ","i","n"," ","0","s">>

Fragments ==
  { K_429, K_quota, F_retry12_5, F_retry5, F_retry7,
    K_expired, K_APIkey, K_referer, K_timedout, K_timeout, K_limit }

RECURSIVE TextsOfLen(_)
TextsOfLen(n) ==
  IF n = 0 THEN { <<>> }
  ELSE { f \o t : f \in Fragments, t \in TextsOfLen(n - 1) }

\* Every provider error text of the model.
ErrorTexts == UNION { TextsOfLen(n) : n \in 0..MaxFrags }

\* String.prototype.includes
Includes(s, k) ==
  \E i \in 1..(Len(s) - Len(k) + 1) : SubSeq(s, i, i + Len(k) - 1) = k

Digits == {"0","1","2","3","4","5","6","7","8","9"}

DigitVal(c) ==
  CASE c = "0" -> 0 [] c = "1" -> 1 [] c = "2" -> 2 [] c = "3" -> 3
    [] c = "4" -> 4 [] c = "5" -> 5 [] c = "6" -> 6 [] c = "7" -> 7
    [] c = "8" -> 8 [] c = "9" -> 9

\* Length of the run of digits of s that starts at position i (0 when s[i] is
\* no digit or i is past the end): what \d+ can take, greedily.
RECURSIVE DigitRun(_, _)
DigitRun(s, i) ==
  IF i <= Len(s) /\ s[i] \in Digits THEN 1 + DigitRun(s, i + 1) ELSE 0

\* Value of the decimal digits s[i..j].
RECURSIVE IntOf(_, _, _)
IntOf(s, i, j) ==
  IF j < i THEN 0 ELSE 10 * IntOf(s, i, j - 1) + DigitVal(s[j])

\* /retry in (\d+(\.\d+)?)s/ tried at position i of s: the captured number as
\* [int |-> digits before the point, fracNonZero |-> some digit after the
\* point is not 0], or [none |-> TRUE] when the pattern does not match at i.
\* \d+ must take the whole digit run (a shorter one is followed by a digit,
\* which is neither "." nor "s"); the same holds for the fraction.
RetryMatchAt(s, i) ==
  LET p == i + Len(K_retryin)
      k == DigitRun(s, p)
      q == p + k
      m == IF q <= Len(s) /\ s[q] = "." THEN DigitRun(s, q + 1) ELSE 0
      e == q + 1 + m
  IN  IF i + Len(K_retryin) - 1 > Len(s)
         \/ SubSeq(s, i, i + Len(K_retryin) - 1) # K_retryin
         \/ k = 0
      THEN [none |-> TRUE]
      ELSE IF q <= Len(s) /\ s[q] = "s"
      THEN [none |-> FALSE, int |-> IntOf(s, p, q - 1), fracNonZero |-> FALSE]
      ELSE IF m > 0 /\ e <= Len(s) /\ s[e] = "s"
      THEN [none |-> FALSE, int |-> IntOf(s, p, q - 1),
            fracNonZero |-> \E j \in (q + 1)..(e - 1) : s[j] # "0"]
      ELSE [none |-> TRUE]

\* String.prototype.match with the (non-global) retry regex: the leftmost match.
RetryMatch(s) ==
  LET hits == { i \in 1..Len(s) : ~RetryMatchAt(s, i).none }
  IN  IF hits = {} THEN [none |-> TRUE]
      ELSE RetryMatchAt(s, CHOOSE i \in hits : \A j \in hits : i <= j)

\* Math.floor in place of Math.ceil.
FloorOf(m) == m.int

\* Math.ceil(parseFloat(capture))
CeilOf(m) == m.int + (IF m.fracNonZero THEN 1 ELSE 0)

\* --------------------------------------------------------- provider errors
\* The SDK's error for a failed generateContent: an optional HTTP status, and a
\* message that is either plain text or the JSON envelope
\* {"error":{"message":"<text>"}} around it.
EnvPre == <<"{","\"","e","r","r","o","r","\"",":","{","\"","m","e","s","s","a","g","e","\"",":","\"">>
EnvPost == <<"\"","}","}">>

ShortTexts == { t \in ErrorTexts : \E f \in Fragments \cup { <<>> } : t = f }

\* The texts of the errors that carry the HTTP status 429: a short text, or two
\* retry hints in a row.
StatusTexts ==
  ShortTexts \cup { f \o g : f \in { F_retry12_5, F_retry5, F_retry7 },
                             g \in { F_retry12_5, F_retry5, F_retry7 } }

ProviderErrors ==
  { [origin |-> "provider", status |-> 0, json |-> FALSE, text |-> t] : t \in ErrorTexts }
  \cup { [origin |-> "provider", status |-> 429, json |-> FALSE, text |-> t] : t \in StatusTexts }
  \cup { [origin |-> "provider", status |-> 0, json |-> TRUE, text |-> t] : t \in ShortTexts }

\* An exception raised inside the handler itself (TypeError, SyntaxError, a
\* library's Error): its message is the literal lit. None of these literals
\* contains a keyword any catch block looks for.
JSError(lit) == [origin |-> "js", status |-> 0, json |-> FALSE, text |-> << lit >>]

\* error.message
MessageOf(e) == IF e.json THEN EnvPre \o e.text \o EnvPost ELSE e.text

\* ---------------------------------------------------------- generated text
\* The text generateContent returns is a sequence of tokens: a run of
\* whitespace, a ```json fence, a bare ``` fence, the word "json" (what is left
\* of a ```json fence once its backticks are cut away), other prose, or the
\* JSON serialization of a value.
WS == [k |-> "ws"]
FenceJson == [k |-> "fence_json"]
Fence == [k |-> "fence"]
WordJson == [k |-> "word_json"]
Prose == [k |-> "prose"]
J(v) == [k |-> "json", v |-> v]

RequiredFields ==
  { "recipeName", "origin", "cuisineType", "prepTime", "cookTime",
    "difficulty", "ingredients", "instructions" }
StringFields ==
  { "recipeName", "origin", "cuisineType", "prepTime", "cookTime",
    "difficulty", "chefTips", "imageUrl" }

RecipeFull ==
  [ recipeName |-> "Maqluba", origin |-> "Palestine", cuisineType |-> "Middle Eastern",
    prepTime |-> "20 minutes", cookTime |-> "45 minutes", difficulty |-> "Medium",
    ingredients |-> << "1 cup rice", "500g chicken" >>,
    instructions |-> << "Step 1", "Step 2" >> ]
RecipeDetected ==
  [ recipeName |-> "Kabsa", origin |-> "Saudi", cuisineType |-> "Middle Eastern",
    prepTime |-> "15 minutes", cookTime |-> "60 minutes", difficulty |-> "Easy",
    ingredients |-> << "rice", "meat" >>, instructions |-> << "Step 1" >>,
    chefTips |-> "Rest before serving", detectedIngredients |-> << "rice", "meat" >> ]
RecipeNoName ==
  [ origin |-> "Palestine", cuisineType |-> "Middle Eastern",
    prepTime |-> "20 minutes", cookTime |-> "45 minutes", difficulty |-> "Medium",
    ingredients |-> << "1 cup rice" >>, instructions |-> << "Step 1" >> ]
RecipeNoIngredients ==
  [ recipeName |-> "Maqluba", origin |-> "Palestine", cuisineType |-> "Middle Eastern",
    prepTime |-> "20 minutes", cookTime |-> "45 minutes", difficulty |-> "Medium",
    ingredients |-> << >>, instructions |-> << "Step 1" >> ]

\* JSON values: an object (a record of its fields) or null.
Obj(o) == [t |-> "obj", o |-> o]
JNull == [t |-> "null"]
EmptyObject == Obj(<< >>)

JSONValues ==
  { Obj(RecipeFull), Obj(RecipeDetected), Obj(RecipeNoName),
    Obj(RecipeNoIngredients), EmptyObject, JNull }

\* The Recipe invariants of the data model: every required field present and
\* non-empty.
ValidRecipe(v) ==
  /\ v.t = "obj"
  /\ RequiredFields \subseteq DOMAIN v.o
  /\ \A f \in RequiredFields :
       IF f \in StringFields THEN v.o[f] # "" ELSE v.o[f] # << >>

\* The shapes a generated text takes around a serialized value.
Wrappings == { "bare", "spaced", "fenced", "led_fenced", "fenced_trailed",
               "plain_fenced", "prefaced" }

Wrap(w, v) ==
  CASE w = "bare"           -> << J(v) >>
    [] w = "spaced"         -> << WS, J(v), WS >>
    [] w = "fenced"         -> << FenceJson, WS, J(v), WS, Fence >>
    [] w = "led_fenced"     -> << WS, FenceJson, WS, J(v), WS, Fence >>
    [] w = "fenced_trailed" -> << FenceJson, WS, J(v), WS, Fence, WS >>
    [] w = "plain_fenced"   -> << Fence, WS, J(v), WS, Fence >>
    [] w = "prefaced"       -> << Prose, WS, J(v) >>

GeneratedTexts == { << >> } \cup { Wrap(w, v) : w \in Wrappings, v \in JSONValues }

\* String.prototype.trim
RECURSIVE TrimStart(_)
TrimStart(s) == IF s # << >> /\ Head(s).k = "ws" THEN TrimStart(Tail(s)) ELSE s
RECURSIVE TrimEnd(_)
TrimEnd(s) ==
  IF s # << >> /\ s[Len(s)].k = "ws" THEN TrimEnd(SubSeq(s, 1, Len(s) - 1)) ELSE s
Trim(s) == TrimEnd(TrimStart(s))

\* JSON.parse: whitespace around one serialized value; anything else throws.
JSONParse(s) ==
  LET t == Trim(s)
  IN  IF Len(t) = 1 /\ t[1].k = "json"
      THEN [ok |-> TRUE, v |-> t[1].v]
      ELSE [ok |-> FALSE]

\* A provider outcome: the generated text, or the error thrown.
Outcomes ==
  { [ok |-> TRUE, text |-> t] : t \in GeneratedTexts }
  \cup { [ok |-> FALSE, err |-> e] : e \in ProviderErrors }

\* ------------------------------------------------------------------ state
VARIABLES
  apiKey,    \* process.env.GEMINI_API_KEY is set (read-only after start)
  pc,        \* "idle", "calling" (awaiting generateContent) or "done"
  handler,   \* the handler running the current request
  req,       \* the current request
  callLog,   \* the generateContent invocations of the current request
  outcome,   \* what the provider answered
  resp,      \* the response sent
  budget     \* "within" the 60 s the call may take, or "spent"

\* Two requests in flight in one process (the Express servers, a warm
\* serverless instance).
VARIABLES
  slots,     \* per invocation: where it stands, its request, call and answer
  frames     \* per activation frame: the handler's local variables

\* One request body on its way into a handler's memory.
VARIABLES
  upload

\* The browser page (the React component App and its QuotaMessage dialog).
VARIABLES
  ui,        \* the component's state: image, ingredients, loading, recipe, ...
  run,       \* where the running handleGenerateText / handleAnalyzeImage stands
  dialog     \* the mounted QuotaMessage: timeLeft and its interval timer

serverVars == << apiKey, pc, handler, req, callLog, outcome, resp, budget >>
pairVars == << slots, frames >>
uiVars == << ui, run, dialog >>
sideVars == << pairVars, upload, uiVars >>
vars == << serverVars, sideVars >>

Slots == { 1, 2 }

None == [none |-> TRUE]

Init ==
  /\ apiKey \in BOOLEAN
  /\ pc = "idle"
  /\ handler = "none"
  /\ req = None
  /\ callLog = << >>
  /\ outcome = None
  /\ resp = None
  /\ budget = "within"
  /\ slots = [s \in Slots |-> [pc |-> "idle"]]
  /\ frames = [s \in Slots |-> None]
  /\ upload = [pc |-> "idle"]
  /\ ui = [image |-> "none", ingredients |-> {}, loading |-> FALSE,
           recipe |-> None, error |-> None, showQuotaMessage |-> FALSE,
           quotaRetrySeconds |-> 60]
  /\ run = [pc |-> "idle", last |-> None]
  /\ dialog = [mounted |-> FALSE, timeLeft |-> 0, timer |-> FALSE]

\* ------------------------------------------------------------- responses
\* Cross-origin headers alone, with no content type.
originHeaders ==
  ("Access-Control-Allow-Origin" :> "*")
  @@ ("Access-Control-Allow-Headers" :> "Content-Type")

corsHeaders ==
  ("Access-Control-Allow-Origin" :> "*")
  @@ ("Access-Control-Allow-Headers" :> "Content-Type")
  @@ ("Content-Type" :> "application/json")

\* Headers of an Express response: app.use(cors()) adds the origin header to
\* every response; res.json sets the JSON content type, the default error
\* handler an HTML one.
expressJsonHeaders ==
  ("Access-Control-Allow-Origin" :> "*") @@ ("Content-Type" :> "application/json")
expressHtmlHeaders ==
  ("Access-Control-Allow-Origin" :> "*") @@ ("Content-Type" :> "text/html")
noHeaders == [h \in {} |-> ""]

ErrorBody(msg) == [kind |-> "error", error |-> msg]
JsonBody(v) == [kind |-> "json", value |-> v]
\* A preflight answered like any other method that is not POST.
RefusalBody == [kind |-> "error", error |-> << "Method not allowed" >>]
EmptyBody == [kind |-> "empty"]

Response(status, headers, body) ==
  [status |-> status, headers |-> headers, body |-> body]

\* What a step of a handler yields: a response, or the one generateContent call.
Reply(r) == [t |-> "reply", resp |-> r]
Generate(c) == [t |-> "call", call |-> c]

\* An exception that leaves the handler: no response is written by it.
Uncaught(lit) == Response(0, noHeaders, [kind |-> "uncaught", error |-> << lit >>])

Undefined == "undefined"

\* `language === "ar" ? "Arabic" : "English"`
ResponseLanguage(language) == IF language = "ar" THEN "Arabic" ELSE "English"

\* `x || d` on a string field
OrDefault(x, d) == IF x = Undefined \/ x = "" THEN d ELSE x

\* ------------------------------------------------------------- requests
Languages == { Undefined, "ar", "fr" }
Cuisines == { Undefined, "Italian" }
Methods == { "OPTIONS", "GET", "POST" }

\* A file part of a multipart body. Its bytes either decode as an image
\* ("jpeg") or do not ("corrupt").
FileParts == [name : { "image", "doc" }, data : { "jpeg", "corrupt" }]

RECURSIVE FileListsOfLen(_)
FileListsOfLen(n) ==
  IF n = 0 THEN { << >> }
  ELSE { << f >> \o l : f \in FileParts, l \in FileListsOfLen(n - 1) }

FileLists == UNION { FileListsOfLen(n) : n \in 0..MaxFiles }

\* The bytes of the i-th file part of a body.
BytesOf(files, i) == [part |-> i, data |-> files[i].data]

\* Positions of the file parts sent under the field name `image`.
ImageParts(files) == { i \in 1..Len(files) : files[i].name = "image" }

MultipartRequests ==
  [ method : Methods, multipart : BOOLEAN, files : FileLists,
    language : Languages, cuisineType : Cuisines ]

\* The `ingredients` member of a JSON body.
IngredientValues ==
  { [t |-> "undef"], [t |-> "str"], [t |-> "arr", a |-> << >>],
    [t |-> "arr", a |-> << "chicken", "rice" >>] }

\* A raw JSON body: not well-formed, absent, the JSON null, a JSON number, or
\* an object.
JsonBodies ==
  { [t |-> "malformed"], [t |-> "absent"], [t |-> "null"], [t |-> "num"] }
  \cup [ t : { "obj" }, ingredients : IngredientValues,
         language : Languages, cuisineType : Cuisines ]

IngredientRequests == [ method : Methods, body : JsonBodies ]

\* Destructuring `const { ingredients, cuisineType, language } = body` of a
\* parsed body that is not null: members of a non-object are undefined.
Member(body, f) ==
  IF body.t = "obj" THEN body[f]
  ELSE IF f = "ingredients" THEN [t |-> "undef"] ELSE Undefined

\* `!Array.isArray(ingredients) || ingredients.length === 0`
NoIngredients(ing) == ing.t # "arr" \/ Len(ing.a) = 0

\* Pixel size of the picture in uploaded bytes: the decodable upload of the
\* model is a 1600 x 1200 photograph; bytes that do not decode have no size.
SourceSize(data) ==
  IF data = "jpeg" THEN [w |-> 1600, h |-> 1200] ELSE [w |-> 0, h |-> 0]

\* a / b rounded to the nearest integer (b > 0).
RoundDiv(a, b) == (2 * a + b) \div (2 * b)

\* resize(edge, edge, {fit: "inside", withoutEnlargement: true}): the largest
\* size of the same aspect ratio that fits an edge x edge box, and the source
\* size itself when that already fits.
FitInside(w, h, edge) ==
  IF w <= edge /\ h <= edge THEN [w |-> w, h |-> h]
  ELSE IF w >= h THEN [w |-> edge, h |-> RoundDiv(h * edge, w)]
  ELSE [w |-> RoundDiv(w * edge, h), h |-> edge]

\* sharp(buffer).resize(edge, edge, {fit: "inside", withoutEnlargement: true})
\*   .jpeg({quality}).toBuffer(): throws when the bytes do not decode.
Sharp(bytes, edge, quality) ==
  IF bytes.data = "corrupt"
  THEN [ok |-> FALSE,
        err |-> JSError("Input buffer contains unsupported image format")]
  ELSE LET size == FitInside(SourceSize(bytes.data).w, SourceSize(bytes.data).h, edge)
       IN  [ok |-> TRUE,
            image |-> [part |-> bytes.part, data |-> "jpeg", decoded |-> TRUE,
                       maxEdge |-> edge, quality |-> quality,
                       width |-> size.w, height |-> size.h]]

\* Bytes handed on as they came, with no decoding.
RawImage(bytes) ==
  [part |-> bytes.part, data |-> bytes.data, decoded |-> FALSE,
   maxEdge |-> 0, quality |-> 0,
   width |-> SourceSize(bytes.data).w, height |-> SourceSize(bytes.data).h]

NoImage ==
  [part |-> 0, data |-> "none", decoded |-> FALSE, maxEdge |-> 0, quality |-> 0,
   width |-> 0, height |-> 0]

\* The instruction text of a generateContent call.
ImagePrompt(cuisine, language) ==
  [mode |-> "analyze-image", cuisine |-> cuisine,
   language |-> ResponseLanguage(language), ingredients |-> << >>,
   skeleton |-> FALSE]
IngredientPrompt(cuisine, language, ingredients, skeleton) ==
  [mode |-> "from-ingredients", cuisine |-> cuisine,
   language |-> ResponseLanguage(language), ingredients |-> ingredients,
   skeleton |-> skeleton]

\* One generateContent invocation: the instruction text, the inline image (if
\* any) and whether config.responseSchema: RECIPE_SCHEMA is attached.
GenerationRequest(prompt, image, schema) ==
  [prompt |-> prompt, image |-> image, schema |-> schema,
   systemInstruction |-> "SYSTEM_INSTRUCTION"]

\* ------------------------------------------------- the two steps of a handler
\* A handler h takes request r and runs up to its reply or to its await of
\* generateContent.
Begin(h, r, step) ==
  /\ pc = "idle"
  /\ handler' = h
  /\ req' = r
  /\ outcome' = None
  /\ IF step.t = "call"
     THEN /\ pc' = "calling"
          /\ callLog' = Append(callLog, step.call)
          /\ resp' = None
     ELSE /\ pc' = "done"
          /\ callLog' = callLog
          /\ resp' = step.resp
  /\ UNCHANGED << apiKey, budget, sideVars >>

\* The awaited generateContent of handler h settles with outcome o and the
\* handler runs to its response.
ResumeRetrying(h, o, response) ==
  /\ pc = "calling"
  /\ handler = h
  /\ outcome' = o
  /\ IF o.ok
     THEN pc' = "done" /\ resp' = response /\ callLog' = callLog
     ELSE pc' = "calling" /\ resp' = None /\ callLog' = Append(callLog, callLog[1])
  /\ UNCHANGED << apiKey, handler, req, budget, sideVars >>

Resume(h, o, response) ==
  /\ pc = "calling"
  /\ handler = h
  /\ outcome' = o
  /\ pc' = "done"
  /\ resp' = response
  /\ UNCHANGED << apiKey, handler, req, callLog, budget, sideVars >>

\* The response is out; the process takes the next request.
NextRequest ==
  /\ pc = "done"
  /\ pc' = "idle"
  /\ handler' = "none"
  /\ req' = None
  /\ callLog' = << >>
  /\ outcome' = None
  /\ resp' = None
  /\ budget' = "within"
  /\ UNCHANGED << apiKey, sideVars >>

\* `export const config = { maxDuration: 60 }`: the one handler that declares
\* a duration ceiling. The platform ends the invocation when it is reached;
\* the answer is the platform's, the handler writes nothing.
MaxDurationHandlers == { "api/analyze-image" }
PlatformTimeout == Response(504, noHeaders, [kind |-> "platform"])

Vercel_maxDuration ==
  /\ pc = "calling"
  /\ handler \in MaxDurationHandlers
  /\ budget = "within"
  /\ budget' = "spent"
  /\ pc' = "done"
  /\ resp' = PlatformTimeout
  /\ UNCHANGED << apiKey, handler, req, callLog, outcome, sideVars >>

\* `await ai.models.generateContent(...)` with no timer, race or abort signal
\* around it: while the provider has not settled the call, the handler stays
\* at the await, past the budget as before it.
AwaitPastBudget ==
  /\ pc = "calling"
  /\ handler \notin MaxDurationHandlers
  /\ budget = "within"
  /\ budget' = "spent"
  /\ UNCHANGED << apiKey, pc, handler, req, callLog, outcome, resp, sideVars >>

\* With no credential the provider rejects the call.
OutcomesNow == IF apiKey THEN Outcomes ELSE { o \in Outcomes : ~o.ok }

\* ------------------------------------- netlify/functions/analyze-image.ts
\* parseMultipart: busboy throws on a content type that is not multipart; every
\* file part named `image` is pushed onto result.image in body order. The
\* chunks of every file part, whatever its name, are collected (`buffered`).
Netlify_parseMultipart(r) ==
  IF ~r.multipart
  THEN [ok |-> FALSE, err |-> JSError("Unsupported content type")]
  ELSE [ok |-> TRUE, image |-> ImageParts(r.files),
        buffered |-> 1..Len(r.files),
        language |-> r.language, cuisineType |-> r.cuisineType]

\* The catch block: the inner message of a JSON error text, then the
\* credential rewrite, then the timeout rewrite.
Netlify_analyze_catch(e) ==
  LET message == e.text
      afterKey ==
        IF Includes(message, K_expired) \/ Includes(message, K_renew)
           \/ Includes(message, K_leaked) \/ Includes(message, K_APIkey)
           \/ Includes(message, K_INVALID) \/ Includes(message, K_referer)
        THEN << "API key issue. Check Google AI Studio and Netlify GEMINI_API_KEY, then redeploy." >>
        ELSE message
      afterTimeout ==
        IF Includes(afterKey, K_timedout) \/ Includes(afterKey, K_Timeout)
           \/ Includes(afterKey, K_Sandbox)
        THEN << "Request took too long. Try a smaller image or try again." >>
        ELSE afterKey
  IN  Response(500, corsHeaders, ErrorBody(afterTimeout))

Netlify_analyze_before(r) ==
  IF r.method = "OPTIONS" THEN Reply(Response(204, corsHeaders, EmptyBody))
  ELSE IF r.method # "POST"
  THEN Reply(Response(405, corsHeaders, ErrorBody(<< "Method not allowed" >>)))
  ELSE IF ~apiKey
  THEN Reply(Response(500, corsHeaders, ErrorBody(<< "GEMINI_API_KEY is not set" >>)))
  ELSE
    LET parsed == Netlify_parseMultipart(r) IN
    IF ~parsed.ok THEN Reply(Netlify_analyze_catch(parsed.err))
    ELSE IF parsed.image = {}
    THEN Reply(Response(400, corsHeaders, ErrorBody(<< "No image uploaded" >>)))
    ELSE
      LET first == CHOOSE i \in parsed.image : \A j \in parsed.image : i <= j
          resized == Sharp(BytesOf(r.files, first), 800, 82)
      IN  IF ~resized.ok THEN Reply(Netlify_analyze_catch(resized.err))
          ELSE Generate(GenerationRequest(
                 ImagePrompt(OrDefault(parsed.cuisineType, "Middle Eastern"),
                             OrDefault(parsed.language, "en")),
                 resized.image, TRUE))

\* `const data = text ? JSON.parse(text) : {}` and the 200 reply.
Netlify_after(o, catch(_)) ==
  IF ~o.ok THEN catch(o.err)
  ELSE IF o.text = << >> THEN Response(200, corsHeaders, JsonBody(EmptyObject))
  ELSE LET data == JSONParse(o.text)
       IN  IF data.ok THEN Response(200, corsHeaders, JsonBody(data.v))
           ELSE catch(JSError("Unexpected token in JSON"))

Netlify_analyze_after(o) == Netlify_after(o, Netlify_analyze_catch)

Netlify_analyze_image ==
  /\ pc = "idle"
  /\ \E r \in MultipartRequests :
       Begin("netlify/analyze-image", r, Netlify_analyze_before(r))

Netlify_analyze_image_resume ==
  /\ pc = "calling" /\ handler = "netlify/analyze-image"
  /\ \E o \in OutcomesNow :
       Resume("netlify/analyze-image", o, Netlify_analyze_after(o))

\* ------------------------------------ netlify/functions/generate-recipe.ts
Netlify_generate_catch(e) ==
  LET message == e.text
  IN  Response(500, corsHeaders, ErrorBody(
        IF Includes(message, K_expired) \/ Includes(message, K_renew)
           \/ Includes(message, K_leaked) \/ Includes(message, K_APIkey)
           \/ Includes(message, K_INVALID)
        THEN << "API key expired or invalid. Create a new key at Google AI Studio (aistudio.google.com/apikey), set GEMINI_API_KEY in Netlify Environment variables, then redeploy." >>
        ELSE message))

\* The same checks with the body validated ahead of the credential.
Netlify_generate_validatesFirst(r) ==
  IF r.method = "OPTIONS" THEN Reply(Response(204, corsHeaders, EmptyBody))
  ELSE IF r.method # "POST"
  THEN Reply(Response(405, corsHeaders, ErrorBody(<< "Method not allowed" >>)))
  ELSE IF r.body.t \in { "malformed", "null" }
  THEN Reply(Netlify_generate_catch(JSError("Unexpected token in JSON")))
  ELSE IF NoIngredients(Member(r.body, "ingredients"))
  THEN Reply(Response(400, corsHeaders,
                      ErrorBody(<< "ingredients array is required" >>)))
  ELSE IF ~apiKey
  THEN Reply(Response(500, corsHeaders, ErrorBody(<< "GEMINI_API_KEY is not set" >>)))
  ELSE Generate(GenerationRequest(
         IngredientPrompt(OrDefault(Member(r.body, "cuisineType"), "Middle Eastern"),
                          Member(r.body, "language"),
                          Member(r.body, "ingredients").a, FALSE),
         NoImage, TRUE))

Netlify_generate_before(r) ==
  IF r.method = "OPTIONS" THEN Reply(Response(204, corsHeaders, EmptyBody))
  ELSE IF r.method # "POST"
  THEN Reply(Response(405, corsHeaders, ErrorBody(<< "Method not allowed" >>)))
  ELSE IF ~apiKey
  THEN Reply(Response(500, corsHeaders, ErrorBody(<< "GEMINI_API_KEY is not set" >>)))
  ELSE IF r.body.t = "malformed"
  THEN Reply(Netlify_generate_catch(JSError("Unexpected token in JSON")))
  ELSE IF r.body.t = "null"
  THEN Reply(Netlify_generate_catch(
         JSError("Cannot destructure property 'ingredients' of 'body' as it is null.")))
  ELSE
    LET ingredients == Member(r.body, "ingredients")
        cuisineType == Member(r.body, "cuisineType")
        language == Member(r.body, "language")
    IN  IF NoIngredients(ingredients)
        THEN Reply(Response(400, corsHeaders,
                            ErrorBody(<< "ingredients array is required" >>)))
        ELSE Generate(GenerationRequest(
               IngredientPrompt(OrDefault(cuisineType, "Middle Eastern"),
                                language, ingredients.a, FALSE),
               NoImage, TRUE))

Netlify_generate_after(o) == Netlify_after(o, Netlify_generate_catch)

Netlify_generate_recipe ==
  /\ pc = "idle"
  /\ \E r \in IngredientRequests :
       Begin("netlify/generate-recipe", r, Netlify_generate_before(r))

Netlify_generate_recipe_resume ==
  /\ pc = "calling" /\ handler = "netlify/generate-recipe"
  /\ \E o \in OutcomesNow :
       Resume("netlify/generate-recipe", o, Netlify_generate_after(o))

\* --------------------------------------------------- api/analyze-image.ts
\* responseText.replace(/```json\s*|\s*```/g, ""): scanning left to right,
\* whitespace followed by three backticks goes with them (of a ```json fence
\* that leaves the word json behind); a ```json fence not led by whitespace
\* goes with the whitespace after it; a bare ``` fence goes.
RECURSIVE StripFencesGlobal(_)
StripFencesGlobal(s) ==
  IF s = << >> THEN << >>
  ELSE IF Head(s).k = "ws" /\ Len(s) >= 2 /\ s[2].k = "fence"
  THEN StripFencesGlobal(SubSeq(s, 3, Len(s)))
  ELSE IF Head(s).k = "ws" /\ Len(s) >= 2 /\ s[2].k = "fence_json"
  THEN << WordJson >> \o StripFencesGlobal(SubSeq(s, 3, Len(s)))
  ELSE IF Head(s).k = "fence_json" /\ Len(s) >= 2 /\ s[2].k = "ws"
  THEN StripFencesGlobal(SubSeq(s, 3, Len(s)))
  ELSE IF Head(s).k \in { "fence_json", "fence" }
  THEN StripFencesGlobal(Tail(s))
  ELSE << Head(s) >> \o StripFencesGlobal(Tail(s))

\* The inner try/catch: JSON.parse, and only when it throws the cleaned parse.
Vercel_analyze_parse(text) ==
  LET direct == JSONParse(text)
  IN  IF direct.ok THEN direct ELSE JSONParse(Trim(StripFencesGlobal(text)))

Vercel_analyze_catch(e) ==
  LET message == MessageOf(e)
  IN  Response(500, corsHeaders, ErrorBody(
        IF Includes(message, K_timeout) \/ Includes(message, K_tooklong)
        THEN << "Request timed out. Try a smaller image or check your internet connection." >>
        ELSE IF Includes(message, K_size) \/ Includes(message, K_limit)
        THEN << "Image or request payload too large (Vercel limit ~4.5MB). Compress more or use smaller photo." >>
        ELSE IF message # << >> THEN message
        ELSE << "Internal server error during image analysis" >>))

\* busboy({limits: {files: 1}}): only the first file part raises a `file`
\* event; it is kept when its field name is `image`.
Vercel_analyze_parseForm(r) ==
  IF ~r.multipart
  THEN [ok |-> FALSE,
        err |-> JSError("Invalid Content-Type, expected multipart/form-data")]
  ELSE [ok |-> TRUE,
        image |-> IF Len(r.files) >= 1 /\ r.files[1].name = "image" THEN { 1 } ELSE { },
        buffered |-> IF Len(r.files) >= 1 /\ r.files[1].name = "image" THEN { 1 } ELSE { },
        language |-> r.language, cuisineType |-> r.cuisineType]

Vercel_analyze_before(r) ==
  IF r.method = "OPTIONS" THEN Reply(Response(204, corsHeaders, EmptyBody))
  ELSE IF r.method # "POST"
  THEN Reply(Response(405, corsHeaders, ErrorBody(<< "Method not allowed" >>)))
  ELSE IF ~apiKey
  THEN Reply(Response(500, corsHeaders, ErrorBody(
         << "GEMINI_API_KEY is not set in Vercel Environment Variables" >>)))
  ELSE
    LET parsed == Vercel_analyze_parseForm(r) IN
    IF ~parsed.ok THEN Reply(Vercel_analyze_catch(parsed.err))
    ELSE IF parsed.image = {}
    THEN Reply(Response(400, corsHeaders,
                        ErrorBody(<< "No image uploaded or invalid form data" >>)))
    ELSE
      LET resized == Sharp(BytesOf(r.files, 1), 768, 75)
      IN  IF ~resized.ok THEN Reply(Vercel_analyze_catch(resized.err))
          ELSE Generate(GenerationRequest(
                 ImagePrompt(OrDefault(parsed.cuisineType, "Middle Eastern"),
                             OrDefault(parsed.language, "en")),
                 resized.image, FALSE))

Vercel_analyze_after(o) ==
  IF ~o.ok THEN Vercel_analyze_catch(o.err)
  ELSE LET data == Vercel_analyze_parse(o.text)
       IN  IF data.ok THEN Response(200, corsHeaders, JsonBody(data.v))
           ELSE Vercel_analyze_catch(JSError("Unexpected token in JSON"))

Vercel_analyze_image ==
  /\ pc = "idle"
  /\ \E r \in MultipartRequests :
       Begin("api/analyze-image", r, Vercel_analyze_before(r))

Vercel_analyze_image_resume ==
  /\ pc = "calling" /\ handler = "api/analyze-image"
  /\ \E o \in OutcomesNow :
       Resume("api/analyze-image", o, Vercel_analyze_after(o))

\* -------------------------------------------------- api/generate-recipe.ts
\* .replace(/^\s*```json\s*/, "").replace(/\s*```$/, "").trim(): a ```json
\* fence at the very start (after whitespace) and a ``` fence at the very end.
StripFencesAnchored(s) ==
  LET lead == TrimStart(s)
      a == IF lead # << >> /\ Head(lead).k = "fence_json"
           THEN TrimStart(Tail(lead)) ELSE s
      b == IF a # << >> /\ a[Len(a)].k = "fence"
           THEN TrimEnd(SubSeq(a, 1, Len(a) - 1)) ELSE a
  IN  Trim(b)

Vercel_generate_parse(text) ==
  LET direct == JSONParse(text)
  IN  IF direct.ok THEN direct ELSE JSONParse(StripFencesAnchored(text))

Vercel_generate_catch(e) ==
  LET message == MessageOf(e)
  IN  Response(500, corsHeaders, ErrorBody(
        IF Includes(message, K_key) \/ Includes(message, K_API)
        THEN << "Invalid or missing GEMINI_API_KEY. Check Vercel -> Settings -> Environment Variables." >>
        ELSE IF message # << >> THEN message
        ELSE << "Failed to generate recipe" >>))

Vercel_generate_before(r) ==
  IF r.method = "OPTIONS" THEN Reply(Response(204, corsHeaders, EmptyBody))
  ELSE IF r.method # "POST"
  THEN Reply(Response(405, corsHeaders, ErrorBody(<< "Method not allowed. Use POST." >>)))
  ELSE IF ~apiKey
  THEN Reply(Response(500, corsHeaders, ErrorBody(
         << "GEMINI_API_KEY is not set in Vercel Environment Variables" >>)))
  ELSE IF r.body.t = "malformed"
  THEN Reply(Response(400, corsHeaders, ErrorBody(<< "Invalid JSON in request body" >>)))
  ELSE IF r.body.t = "null"
  THEN Reply(Uncaught("Cannot destructure property 'ingredients' of 'body' as it is null."))
  ELSE
    LET ingredients == Member(r.body, "ingredients")
        cuisineType == LET c == Member(r.body, "cuisineType")
                       IN  IF c = Undefined THEN "Middle Eastern" ELSE c
        language == LET l == Member(r.body, "language")
                    IN  IF l = Undefined THEN "en" ELSE l
    IN  IF NoIngredients(ingredients)
        THEN Reply(Response(400, corsHeaders, ErrorBody(
               << "ingredients array is required and must not be empty" >>)))
        ELSE Generate(GenerationRequest(
               IngredientPrompt(cuisineType, language, ingredients.a, TRUE),
               NoImage, FALSE))

Vercel_generate_after(o) ==
  IF ~o.ok THEN Vercel_generate_catch(o.err)
  ELSE LET recipeJson == Vercel_generate_parse(o.text)
       IN  IF recipeJson.ok THEN Response(200, corsHeaders, JsonBody(recipeJson.v))
           ELSE Vercel_generate_catch(JSError("Unexpected token in JSON"))

Vercel_generate_recipe ==
  /\ pc = "idle"
  /\ \E r \in IngredientRequests :
       Begin("api/generate-recipe", r, Vercel_generate_before(r))

Vercel_generate_recipe_resume ==
  /\ pc = "calling" /\ handler = "api/generate-recipe"
  /\ \E o \in OutcomesNow :
       Resume("api/generate-recipe", o, Vercel_generate_after(o))

\* ------------------------------- unnamed/part_003 (older api/analyze-image)
\* busboy with no limits: every file part named `image` overwrites
\* result.image when it ends, so the last one stays.
Old_analyze_parseForm(r) ==
  IF ~r.multipart
  THEN [ok |-> FALSE, err |-> JSError("Unsupported content type")]
  ELSE [ok |-> TRUE,
        image |-> IF ImageParts(r.files) = {} THEN { }
                  ELSE { CHOOSE i \in ImageParts(r.files) :
                           \A j \in ImageParts(r.files) : j <= i },
        buffered |-> ImageParts(r.files),
        language |-> r.language, cuisineType |-> r.cuisineType]

Old_analyze_catch(e) ==
  LET message == MessageOf(e)
  IN  Response(500, corsHeaders,
               ErrorBody(IF message # << >> THEN message ELSE << "Server error" >>))

Old_analyze_before(r) ==
  IF r.method = "OPTIONS" THEN Reply(Response(204, corsHeaders, EmptyBody))
  ELSE IF r.method # "POST"
  THEN Reply(Response(405, corsHeaders, ErrorBody(<< "Method not allowed" >>)))
  ELSE IF ~apiKey
  THEN Reply(Response(500, corsHeaders, ErrorBody(<< "GEMINI_API_KEY not set" >>)))
  ELSE
    LET parsed == Old_analyze_parseForm(r) IN
    IF ~parsed.ok THEN Reply(Old_analyze_catch(parsed.err))
    ELSE IF parsed.image = {}
    THEN Reply(Response(400, corsHeaders,
                        ErrorBody(<< "No image uploaded or invalid form" >>)))
    ELSE
      LET kept == CHOOSE i \in parsed.image : TRUE
          resized == Sharp(BytesOf(r.files, kept), 800, 82)
      IN  IF ~resized.ok THEN Reply(Old_analyze_catch(resized.err))
          ELSE Generate(GenerationRequest(
                 ImagePrompt(OrDefault(parsed.cuisineType, "Middle Eastern"),
                             OrDefault(parsed.language, "en")),
                 resized.image, FALSE))

Old_analyze_after(o) ==
  IF ~o.ok THEN Old_analyze_catch(o.err)
  ELSE LET data == JSONParse(o.text)
       IN  IF data.ok THEN Response(200, corsHeaders, JsonBody(data.v))
           ELSE Old_analyze_catch(JSError("Unexpected token in JSON"))

Old_analyze_image ==
  /\ pc = "idle"
  /\ \E r \in MultipartRequests :
       Begin("part_003/analyze-image", r, Old_analyze_before(r))

Old_analyze_image_resume ==
  /\ pc = "calling" /\ handler = "part_003/analyze-image"
  /\ \E o \in OutcomesNow :
       Resume("part_003/analyze-image", o, Old_analyze_after(o))

\* ------------------------------------------------ Express (both servers)
\* The requests an app.post route sees.
PostedForms == { r \in MultipartRequests : r.method = "POST" }
PostedJson == { r \in IngredientRequests : r.method = "POST" }

\* res.status(status).json(body)
ExpressJson(status, body) == Response(status, expressJsonHeaders, body)

\* Express's default error handler, reached when a middleware fails.
ExpressError(status) == Response(status, expressHtmlHeaders, [kind |-> "html"])

\* app.use(express.json()): strict parsing takes only an object or an array; a
\* body that is not well-formed, or a bare null or number, ends the request
\* with 400 before any route runs. No body leaves req.body = {}.
express_json(body) ==
  IF body.t \in { "malformed", "null", "num" } THEN [ok |-> FALSE]
  ELSE [ok |-> TRUE, body |-> body]

\* upload.single("image"): a body that is not multipart is passed on with no
\* req.file; a file part under another field name, or a second one under
\* `image`, fails the request (LIMIT_UNEXPECTED_FILE).
upload_single(r) ==
  IF ~r.multipart THEN [ok |-> TRUE, file |-> 0]
  ELSE IF \E i \in 1..Len(r.files) : r.files[i].name # "image"
  THEN [ok |-> FALSE]
  ELSE IF Len(r.files) > 1 THEN [ok |-> FALSE]
  ELSE [ok |-> TRUE, file |-> Len(r.files)]

\* `catch (error) { res.status(500).json({ error: error.message }) }`
Express_catch(e) == ExpressJson(500, ErrorBody(MessageOf(e)))

\* `res.json(JSON.parse(response.text || "{}"))` inside the try.
Express_after(o, catch(_)) ==
  IF ~o.ok THEN catch(o.err)
  ELSE IF o.text = << >> THEN ExpressJson(200, JsonBody(EmptyObject))
  ELSE LET data == JSONParse(o.text)
       IN  IF data.ok THEN ExpressJson(200, JsonBody(data.v))
           ELSE catch(JSError("Unexpected token in JSON"))

\* The generate-recipe route body shared by server.ts and part_000: no check
\* of `ingredients` before `ingredients.join(", ")`, no default cuisine.
Express_generate_before(r, catch(_)) ==
  LET parsed == express_json(r.body) IN
  IF ~parsed.ok THEN Reply(ExpressError(400))
  ELSE
    LET ingredients == Member(parsed.body, "ingredients")
        cuisineType == Member(parsed.body, "cuisineType")
        language == Member(parsed.body, "language")
    IN  IF ingredients.t = "undef"
        THEN Reply(catch(JSError("Cannot read properties of undefined (reading 'join')")))
        ELSE IF ingredients.t # "arr"
        THEN Reply(catch(JSError("ingredients.join is not a function")))
        ELSE Generate(GenerationRequest(
               IngredientPrompt(cuisineType, language, ingredients.a, FALSE),
               NoImage, TRUE))

\* The multer-fed analyze route body shared by server.ts and part_000.
Express_upload_before(r) ==
  LET up == upload_single(r) IN
  IF ~up.ok THEN Reply(ExpressError(500))
  ELSE IF up.file = 0
  THEN Reply(ExpressJson(400, ErrorBody(<< "No image uploaded" >>)))
  ELSE Generate(GenerationRequest(
         ImagePrompt(OrDefault(r.cuisineType, "Middle Eastern"), r.language),
         RawImage(BytesOf(r.files, up.file)), TRUE))

\* -------------------------------------------------------------- server.ts
Server_generate_recipe ==
  /\ pc = "idle"
  /\ \E r \in PostedJson :
       Begin("server/generate-recipe", r, Express_generate_before(r, Express_catch))

Server_generate_recipe_resume ==
  /\ pc = "calling" /\ handler = "server/generate-recipe"
  /\ \E o \in OutcomesNow :
       Resume("server/generate-recipe", o, Express_after(o, Express_catch))

Server_analyze_image ==
  /\ pc = "idle"
  /\ \E r \in PostedForms :
       Begin("server/analyze-image", r, Express_upload_before(r))

Server_analyze_image_resume ==
  /\ pc = "calling" /\ handler = "server/analyze-image"
  /\ \E o \in OutcomesNow :
       Resume("server/analyze-image", o, Express_after(o, Express_catch))

\* ------------------------------------ unnamed/part_000 (later server.ts)
\* The quota branch of the catch blocks.
retrySeconds(message) ==
  LET retryMatch == RetryMatch(message)
  IN  IF retryMatch.none THEN 60 ELSE CeilOf(retryMatch)

QuotaBody(message, seconds) ==
  [kind |-> "quota", error |-> "QUOTA_EXCEEDED", message |-> message,
   retryAfter |-> seconds,
   userMessage |-> [ar |-> [text |-> "quota-ar", seconds |-> seconds],
                    en |-> [text |-> "quota-en", seconds |-> seconds]]]

App_quota_catch(e) ==
  LET message == MessageOf(e)
  IN  IF e.status = 429 \/ Includes(message, K_429) \/ Includes(message, K_quota)
      THEN ExpressJson(429, QuotaBody(message, retrySeconds(message)))
      ELSE ExpressJson(500, ErrorBody(message))

\* The app.post registrations in file order; Express runs the first whose
\* path matches, and none of these handlers calls next().
App_routes ==
  << [path |-> "/api/upload-image", line |-> 83],
     [path |-> "/api/analyze-image-base64", line |-> 142],
     [path |-> "/api/upload-token", line |-> 188],
     [path |-> "/api/analyze-image-base64", line |-> 226],
     [path |-> "/api/analyze-image", line |-> 309],
     [path |-> "/api/analyze-image-upload", line |-> 387],
     [path |-> "/api/generate-recipe", line |-> 430] >>

App_dispatch(path) ==
  LET hits == { i \in 1..Len(App_routes) : App_routes[i].path = path }
  IN  App_routes[CHOOSE i \in hits : \A j \in hits : i <= j].line

\* POST /api/upload-image
UploadRequests == [ form : PostedForms, put : { "ok", "throws" } ]

App_upload_before(r) ==
  LET up == upload_single(r.form) IN
  IF ~up.ok THEN Reply(ExpressError(500))
  ELSE IF up.file = 0
  THEN Reply(ExpressJson(400, ErrorBody(<< "No image uploaded" >>)))
  ELSE IF r.put = "throws"
  THEN Reply(Express_catch(JSError("Vercel Blob: access denied")))
  ELSE Generate(GenerationRequest(
         ImagePrompt(OrDefault(r.form.cuisineType, "Middle Eastern"), r.form.language),
         RawImage(BytesOf(r.form.files, up.file)), TRUE))

\* `result.imageUrl = blob.url` on the parsed value.
WithImageUrl(v) ==
  Obj([f \in DOMAIN v.o \cup { "imageUrl" } |->
         IF f = "imageUrl" THEN "blob.url" ELSE v.o[f]])

App_upload_after(o) ==
  IF ~o.ok THEN Express_catch(o.err)
  ELSE LET result == IF o.text = << >> THEN [ok |-> TRUE, v |-> EmptyObject]
                     ELSE JSONParse(o.text)
       IN  IF ~result.ok THEN Express_catch(JSError("Unexpected token in JSON"))
           ELSE IF result.v.t = "null"
           THEN Express_catch(JSError("Cannot set properties of null (setting 'imageUrl')"))
           ELSE ExpressJson(200, JsonBody(WithImageUrl(result.v)))

App_upload_image ==
  /\ pc = "idle"
  /\ \E r \in UploadRequests :
       Begin("app/upload-image", r, App_upload_before(r))

App_upload_image_resume ==
  /\ pc = "calling" /\ handler = "app/upload-image"
  /\ \E o \in OutcomesNow :
       Resume("app/upload-image", o, App_upload_after(o))

\* POST /api/analyze-image-base64. The `image` member of the body: absent, a
\* number, or a string that is a data URL (prefix) or not, around base64 data
\* that decodes as an image ("jpeg"), does not ("corrupt") or is empty ("none").
ImageValues ==
  { [t |-> "undef"], [t |-> "num"] }
  \cup [ t : { "str" }, prefix : BOOLEAN, data : { "jpeg", "corrupt", "none" } ]

Base64Requests ==
  [ body : { [t |-> "malformed"] }
           \cup [ t : { "obj" }, image : ImageValues,
                  language : Languages, cuisineType : Cuisines ] ]

\* `!image`
Falsy(image) ==
  image.t = "undef" \/ (image.t = "str" /\ ~image.prefix /\ image.data = "none")

\* First registration (line 142): the data-URL prefix is cut off by replace.
App_base64_first_before(r) ==
  LET parsed == express_json(r.body) IN
  IF ~parsed.ok THEN Reply(ExpressError(400))
  ELSE
    LET image == parsed.body.image IN
    IF Falsy(image) THEN Reply(ExpressJson(400, ErrorBody(<< "No image provided" >>)))
    ELSE IF image.t # "str"
    THEN Reply(Express_catch(JSError("image.replace is not a function")))
    ELSE Generate(GenerationRequest(
           ImagePrompt(OrDefault(parsed.body.cuisineType, "Middle Eastern"),
                       parsed.body.language),
           RawImage([part |-> 1, data |-> image.data]), TRUE))

App_base64_first_after(o) == Express_after(o, Express_catch)

\* Second registration (line 226): image.split(",")[1], an explicit check of
\* it, a check of response.text, and the quota branch.
App_base64_second_before(r) ==
  LET parsed == express_json(r.body) IN
  IF ~parsed.ok THEN Reply(ExpressError(400))
  ELSE
    LET image == parsed.body.image IN
    IF Falsy(image) THEN Reply(ExpressJson(400, ErrorBody(<< "No image provided" >>)))
    ELSE IF image.t # "str"
    THEN Reply(App_quota_catch(JSError("image.split is not a function")))
    ELSE IF ~image.prefix \/ image.data = "none"
    THEN Reply(ExpressJson(400, ErrorBody(<< "Invalid image format" >>)))
    ELSE Generate(GenerationRequest(
           ImagePrompt(OrDefault(parsed.body.cuisineType, "Middle Eastern"),
                       parsed.body.language),
           RawImage([part |-> 1, data |-> image.data]), TRUE))

App_base64_second_after(o) ==
  IF ~o.ok THEN App_quota_catch(o.err)
  ELSE IF o.text = << >> THEN App_quota_catch(JSError("No response from Gemini"))
  ELSE LET result == JSONParse(o.text)
       IN  IF ~result.ok THEN App_quota_catch(JSError("Unexpected token in JSON"))
           ELSE IF result.v.t = "null"
           THEN App_quota_catch(JSError("Cannot read properties of null (reading 'recipeName')"))
           ELSE ExpressJson(200, JsonBody(result.v))

App_analyze_image_base64 ==
  /\ pc = "idle"
  /\ \E r \in Base64Requests :
       Begin("app/analyze-image-base64", r,
             IF App_dispatch("/api/analyze-image-base64") = 142
             THEN App_base64_first_before(r)
             ELSE App_base64_second_before(r))

App_analyze_image_base64_resume ==
  /\ pc = "calling" /\ handler = "app/analyze-image-base64"
  /\ \E o \in OutcomesNow :
       Resume("app/analyze-image-base64", o,
              IF App_dispatch("/api/analyze-image-base64") = 142
              THEN App_base64_first_after(o)
              ELSE App_base64_second_after(o))

\* POST /api/analyze-image (image URL). `fetched` is what fetch(imageUrl)
\* does: throws, answers not ok, or answers bytes.
UrlRequests ==
  [ body : { [t |-> "malformed"] }
           \cup [ t : { "obj" }, imageUrl : { Undefined, "https://blob/x.jpg" },
                  language : Languages, cuisineType : Cuisines ],
    fetched : { "throws", "not ok", "jpeg", "corrupt" } ]

App_url_before(r) ==
  LET parsed == express_json(r.body) IN
  IF ~parsed.ok THEN Reply(ExpressError(400))
  ELSE IF parsed.body.imageUrl = Undefined
  THEN Reply(ExpressJson(400, ErrorBody(<< "No image URL provided" >>)))
  ELSE IF r.fetched = "throws" THEN Reply(App_quota_catch(JSError("fetch failed")))
  ELSE IF r.fetched = "not ok"
  THEN Reply(App_quota_catch(JSError("Failed to fetch image from URL")))
  ELSE Generate(GenerationRequest(
         ImagePrompt(OrDefault(parsed.body.cuisineType, "Middle Eastern"),
                     parsed.body.language),
         RawImage([part |-> 1, data |-> r.fetched]), TRUE))

App_url_after(o) ==
  IF ~o.ok THEN App_quota_catch(o.err)
  ELSE LET result == IF o.text = << >> THEN [ok |-> TRUE, v |-> EmptyObject]
                     ELSE JSONParse(o.text)
       IN  IF ~result.ok THEN App_quota_catch(JSError("Unexpected token in JSON"))
           ELSE IF result.v.t = "null"
           THEN App_quota_catch(JSError("Cannot read properties of null (reading 'recipeName')"))
           ELSE ExpressJson(200, JsonBody(result.v))

App_analyze_image ==
  /\ pc = "idle"
  /\ \E r \in UrlRequests :
       Begin("app/analyze-image", r, App_url_before(r))

App_analyze_image_resume ==
  /\ pc = "calling" /\ handler = "app/analyze-image"
  /\ \E o \in OutcomesNow :
       Resume("app/analyze-image", o, App_url_after(o))

\* POST /api/analyze-image-upload
App_analyze_image_upload ==
  /\ pc = "idle"
  /\ \E r \in PostedForms :
       Begin("app/analyze-image-upload", r, Express_upload_before(r))

App_analyze_image_upload_resume ==
  /\ pc = "calling" /\ handler = "app/analyze-image-upload"
  /\ \E o \in OutcomesNow :
       Resume("app/analyze-image-upload", o, Express_after(o, Express_catch))

\* POST /api/generate-recipe
App_generate_recipe ==
  /\ pc = "idle"
  /\ \E r \in PostedJson :
       Begin("app/generate-recipe", r, Express_generate_before(r, App_quota_catch))

App_generate_recipe_resume ==
  /\ pc = "calling" /\ handler = "app/generate-recipe"
  /\ \E o \in OutcomesNow :
       Resume("app/generate-recipe", o, Express_after(o, App_quota_catch))

Next ==
  \/ Netlify_analyze_image
  \/ Netlify_analyze_image_resume
  \/ Netlify_generate_recipe
  \/ Netlify_generate_recipe_resume
  \/ Vercel_analyze_image
  \/ Vercel_analyze_image_resume
  \/ Vercel_generate_recipe
  \/ Vercel_generate_recipe_resume
  \/ Old_analyze_image
  \/ Old_analyze_image_resume
  \/ Server_generate_recipe
  \/ Server_generate_recipe_resume
  \/ Server_analyze_image
  \/ Server_analyze_image_resume
  \/ App_upload_image
  \/ App_upload_image_resume
  \/ App_analyze_image_base64
  \/ App_analyze_image_base64_resume
  \/ App_analyze_image
  \/ App_analyze_image_resume
  \/ App_analyze_image_upload
  \/ App_analyze_image_upload_resume
  \/ App_generate_recipe
  \/ App_generate_recipe_resume
  \/ NextRequest
  \/ Vercel_maxDuration
  \/ AwaitPastBudget

Spec == Init /\ [][Next]_vars

\* ------------------------------------------- two requests in one process
\* The handlers that run side by side, and a sample of the requests of each.
PairHandlers ==
  { "netlify/analyze-image", "api/generate-recipe", "server/generate-recipe" }

PairRequests(h) ==
  IF h = "netlify/analyze-image"
  THEN { r \in MultipartRequests :
           /\ r.method = "POST" /\ r.multipart /\ Len(r.files) = 1
           /\ r.cuisineType = Undefined /\ r.language \in { "ar", Undefined } }
  ELSE { r \in IngredientRequests :
           /\ r.method = "POST"
           /\ \/ r.body.t = "malformed"
              \/ /\ r.body.t = "obj" /\ r.body.cuisineType = Undefined
                 /\ r.body.language \in { "ar", Undefined } }

PairOutcomes ==
  { [ok |-> TRUE, text |-> Wrap("bare", Obj(RecipeFull))],
    [ok |-> TRUE, text |-> << >>],
    [ok |-> FALSE,
     err |-> [origin |-> "provider", status |-> 0, json |-> FALSE, text |-> K_quota]] }

\* The code of handler h up to its await of generateContent, run on the
\* request its local variables hold.
PairBefore(h, r) ==
  IF r \notin PairRequests(h)
  THEN Reply(Uncaught("request of another invocation"))
  ELSE IF h = "netlify/analyze-image" THEN Netlify_analyze_before(r)
  ELSE IF h = "api/generate-recipe" THEN Vercel_generate_before(r)
  ELSE Express_generate_before(r, Express_catch)

PairAfter(h, o) ==
  IF h = "netlify/analyze-image" THEN Netlify_analyze_after(o)
  ELSE IF h = "api/generate-recipe" THEN Vercel_generate_after(o)
  ELSE Express_after(o, Express_catch)

\* All frames are one: what a module-level `let` in place of the handler's
\* local variables would give.
OneFrame(s) == 1

\* `result`, `chunks`, `rawBody`, `body`, `prompt` are declared inside the
\* handler (or inside the Promise executor it creates): every invocation has
\* an activation frame of its own.
Frame(s) == s

\* Invocation s starts: the body is read into the handler's local variables
\* (`await parseMultipart(event)`, `await new Promise(... req.on("end"))`,
\* express.json), during which the other invocation may run.
PairReceive(s) ==
  /\ slots[s].pc = "idle"
  /\ \E h \in PairHandlers : \E r \in PairRequests(h) :
       /\ slots' = [slots EXCEPT ![s] = [pc |-> "received", handler |-> h, req |-> r]]
       /\ frames' = [frames EXCEPT ![Frame(s)] = r]
  /\ UNCHANGED << serverVars, upload, uiVars >>

\* Invocation s runs from its local variables up to its reply or its call.
PairCall(s) ==
  /\ slots[s].pc = "received"
  /\ LET step == PairBefore(slots[s].handler, frames[Frame(s)])
     IN  slots' = [slots EXCEPT ![s] =
           IF step.t = "call"
           THEN [pc |-> "calling", handler |-> slots[s].handler, req |-> slots[s].req,
                 call |-> step.call]
           ELSE [pc |-> "done", handler |-> slots[s].handler, req |-> slots[s].req,
                 called |-> FALSE, resp |-> step.resp]]
  /\ UNCHANGED << serverVars, frames, upload, uiVars >>

\* The call of invocation s settles and it answers.
PairSettle(s) ==
  /\ slots[s].pc = "calling"
  /\ \E o \in { x \in PairOutcomes : apiKey \/ ~x.ok } :
       slots' = [slots EXCEPT ![s] =
         [pc |-> "done", handler |-> slots[s].handler, req |-> slots[s].req,
          called |-> TRUE, call |-> slots[s].call, outcome |-> o,
          resp |-> PairAfter(slots[s].handler, o)]]
  /\ UNCHANGED << serverVars, frames, upload, uiVars >>

\* The answer of invocation s is out; its frame is gone.
PairReturn(s) ==
  /\ slots[s].pc = "done"
  /\ slots' = [slots EXCEPT ![s] = [pc |-> "idle"]]
  /\ frames' = [frames EXCEPT ![Frame(s)] = None]
  /\ UNCHANGED << serverVars, upload, uiVars >>

NextPair ==
  \/ \E s \in Slots : PairReceive(s)
  \/ \E s \in Slots : PairCall(s)
  \/ \E s \in Slots : PairSettle(s)
  \/ \E s \in Slots : PairReturn(s)

SpecPair == Init /\ [][NextPair]_vars

\* ------------------------------------------------- a body entering memory
\* The handlers that collect a request body (an image part, a JSON text) in
\* memory themselves or through multer.
BufferingHandlers ==
  { "netlify/analyze-image", "api/analyze-image", "api/generate-recipe",
    "part_003/analyze-image", "server/analyze-image" }

\* limits.fileSize, in megabytes.
Vercel_fileSize == 6
Multer_fileSize == 10

Min(a, b) == IF a < b THEN a ELSE b

\* The chunks a handler can be handed next when `rest` megabytes are still to
\* come: a Netlify event carries the whole body (bb.write(rawBody)), a piped
\* request comes in pieces.
Chunks(h, rest) ==
  IF h = "netlify/analyze-image" THEN { rest } ELSE 1..Min(MaxChunkMB, rest)

\* A request of `size` megabytes reaches handler h.
UploadBegin ==
  /\ upload.pc = "idle"
  /\ \E h \in BufferingHandlers : \E size \in 0..MaxBodyMB :
       upload' = [pc |-> "receiving", handler |-> h, size |-> size,
                  sent |-> 0, held |-> 0, truncated |-> FALSE]
  /\ UNCHANGED << serverVars, pairVars, uiVars >>

\* chunks.push(chunk) / rawBody += chunk. busboy with limits.fileSize stops
\* handing out data at the limit and marks the stream truncated (nothing in
\* the handler reads the mark or listens for "limit"); multer with
\* limits.fileSize fails the request with LIMIT_FILE_SIZE, which Express
\* answers; without limits every chunk is kept.
UploadData ==
  /\ upload.pc = "receiving"
  /\ upload.sent < upload.size
  /\ \E c \in Chunks(upload.handler, upload.size - upload.sent) :
       LET h == upload.handler
           more == upload.held + c
       IN  IF h = "server/analyze-image" /\ more > Multer_fileSize
           THEN upload' = [pc |-> "rejected", handler |-> h, size |-> upload.size,
                           held |-> 0, resp |-> ExpressError(500)]
           ELSE IF h = "api/analyze-image" /\ more > Vercel_fileSize
           THEN upload' = [upload EXCEPT !.sent = @ + c, !.held = Vercel_fileSize,
                                         !.truncated = TRUE]
           ELSE upload' = [upload EXCEPT !.sent = @ + c, !.held = more]
  /\ UNCHANGED << serverVars, pairVars, uiVars >>

\* The body has ended: Buffer.concat(chunks) goes to sharp, rawBody to
\* JSON.parse.
UploadEnd ==
  /\ upload.pc = "receiving"
  /\ upload.sent = upload.size
  /\ upload' = [pc |-> "passed", handler |-> upload.handler, size |-> upload.size,
                held |-> upload.held, passed |-> upload.held]
  /\ UNCHANGED << serverVars, pairVars, uiVars >>

UploadNext ==
  /\ upload.pc \in { "passed", "rejected" }
  /\ upload' = [pc |-> "idle"]
  /\ UNCHANGED << serverVars, pairVars, uiVars >>

NextUpload == UploadBegin \/ UploadData \/ UploadEnd \/ UploadNext

SpecUpload == Init /\ [][NextUpload]_vars

\* ------------------------------------------------------------- the page
\* unnamed/part_001: the component App, its handlers and QuotaMessage.

\* Provider texts behind the quota answers of /api/generate-recipe.
QuotaTexts ==
  { K_429, K_429 \o F_retry5, K_quota \o F_retry12_5, K_429 \o F_retry0 }

\* What `await fetch(...)` comes back with: a rejection, or a response: a
\* recipe, the JSON null, a quota answer of App_quota_catch, a 429 of some
\* other layer without retryAfter, an {error} answer, an HTML error page.
Answers ==
  { [t |-> "rejects"] }
  \cup { [t |-> "response", resp |-> r] :
           r \in { ExpressJson(200, JsonBody(Obj(RecipeFull))),
                   ExpressJson(200, JsonBody(Obj(RecipeDetected))),
                   ExpressJson(200, JsonBody(JNull)),
                   Response(429, noHeaders, ErrorBody(<< "Too Many Requests" >>)),
                   ExpressJson(500, ErrorBody(<< "Failed to generate recipe" >>)),
                   ExpressError(500) }
                 \cup { ExpressJson(429, QuotaBody(m, retrySeconds(m))) : m \in QuotaTexts } }

\* `await response.json()`: the parsed body, or a SyntaxError.
Response_json(response) ==
  LET body == response.body IN
  IF body.kind = "json" THEN [ok |-> TRUE, data |-> body.value]
  ELSE IF body.kind = "error" THEN [ok |-> TRUE, data |-> Obj([error |-> body.error])]
  ELSE IF body.kind = "quota"
  THEN [ok |-> TRUE,
        data |-> Obj([error |-> body.error, message |-> body.message,
                      retryAfter |-> body.retryAfter, userMessage |-> body.userMessage])]
  ELSE [ok |-> FALSE]

Has(data, f) == data.t = "obj" /\ f \in DOMAIN data.o

\* The component with no dialog on screen.
Unmounted == [mounted |-> FALSE, timeLeft |-> 0, timer |-> FALSE]

\* QuotaMessage mounts: useState(retrySeconds), then its effects run:
\* setTimeLeft(retrySeconds) and setInterval(..., 1000).
Mounted(seconds) ==
  [mounted |-> TRUE, timeLeft |-> seconds, timer |-> TRUE]

\* `catch (err) { setError(err.message) } finally { setLoading(false) }`
Caught(state, message) ==
  [state EXCEPT !.error = [message |-> message], !.loading = FALSE]

\* The handler from the settling of fetch to its end, for answer a:
\* response.json(), the !response.ok branch with its 429 case, setRecipe,
\* (handleAnalyzeImage only) the detectedIngredients merge, catch and finally.
Settled(h, a) ==
  IF a.t = "rejects" THEN Caught(ui, << "Failed to fetch" >>)
  ELSE
    LET parsed == Response_json(a.resp) IN
    IF ~parsed.ok THEN Caught(ui, << "Unexpected token < in JSON" >>)
    ELSE
      LET data == parsed.data IN
      IF a.resp.status \notin 200..299
      THEN IF a.resp.status = 429
           THEN IF data.t = "null"
                THEN Caught(ui, << "Cannot read properties of null" >>)
                ELSE [ui EXCEPT
                        !.quotaRetrySeconds =
                           IF Has(data, "retryAfter") /\ data.o.retryAfter # 0
                           THEN data.o.retryAfter ELSE 60,
                        !.showQuotaMessage = TRUE,
                        !.loading = FALSE]
           ELSE Caught(ui, IF Has(data, "error") THEN data.o.error
                           ELSE IF h = "text" THEN << "Failed to generate recipe" >>
                           ELSE << "Failed to analyze image" >>)
      ELSE IF data.t = "null"
      THEN IF h = "text" THEN [ui EXCEPT !.loading = FALSE]
           ELSE Caught(ui, << "Cannot read properties of null" >>)
      ELSE [ui EXCEPT
              !.recipe = data,
              !.ingredients =
                 IF h = "image" /\ Has(data, "detectedIngredients")
                    /\ Len(data.o.detectedIngredients) > 0
                 THEN @ \cup { data.o.detectedIngredients[i] :
                                 i \in 1..Len(data.o.detectedIngredients) }
                 ELSE @,
              !.loading = FALSE]

\* The user picks a file: one the browser can decode, or one it cannot.
handleImageChange ==
  /\ \E file \in { "photo", "broken" } :
       ui' = [ui EXCEPT !.image = file, !.recipe = None, !.error = None]
  /\ UNCHANGED << serverVars, pairVars, upload, run, dialog >>

handleAddIngredient ==
  /\ ui' = [ui EXCEPT !.ingredients = @ \cup { "rice" }]
  /\ UNCHANGED << serverVars, pairVars, upload, run, dialog >>

removeIngredient ==
  /\ \E x \in ui.ingredients : ui' = [ui EXCEPT !.ingredients = @ \ { x }]
  /\ UNCHANGED << serverVars, pairVars, upload, run, dialog >>

\* A click on the button, which is disabled={loading || ingredients.length
\* === 0}: the handler up to its await of fetch.
handleGenerateText ==
  /\ ~ui.loading /\ ui.ingredients # {}
  /\ IF ui.ingredients = {}
     THEN /\ ui' = [ui EXCEPT !.error = [message |-> << "noIngredients" >>]]
          /\ UNCHANGED << run, dialog >>
     ELSE /\ ui' = [ui EXCEPT !.loading = TRUE, !.error = None, !.recipe = None,
                              !.showQuotaMessage = FALSE]
          /\ run' = [pc |-> "fetch", h |-> "text"]
          /\ dialog' = Unmounted
  /\ UNCHANGED << serverVars, pairVars, upload >>

\* A click on the button, which is disabled={loading || !image}: the handler
\* up to compressImageForUpload's wait for img.onload.
handleAnalyzeImage ==
  /\ ~ui.loading /\ ui.image # "none"
  /\ IF ui.image = "none"
     THEN /\ ui' = [ui EXCEPT !.error = [message |-> << "noImage" >>]]
          /\ UNCHANGED << run, dialog >>
     ELSE /\ ui' = [ui EXCEPT !.loading = TRUE, !.error = None, !.recipe = None,
                              !.showQuotaMessage = FALSE]
          /\ run' = [pc |-> "img.onload", h |-> "image", file |-> ui.image]
          /\ dialog' = Unmounted
  /\ UNCHANGED << serverVars, pairVars, upload >>

\* img.onload fires for a file the browser decodes (no img.onerror is set):
\* the canvas is drawn and the first encoding asked for at quality 0.85.
Img_onload ==
  /\ run.pc = "img.onload"
  /\ run.file = "photo"
  /\ run' = [pc |-> "toBlob", h |-> "image", quality |-> 85, encodings |-> 0]
  /\ UNCHANGED << serverVars, pairVars, upload, ui, dialog >>

\* The canvas.toBlob callback: resolve when there is no blob, when it fits
\* targetSize or when quality <= 0.5; else quality -= 0.1 and encode again.
Canvas_toBlob ==
  /\ run.pc = "toBlob"
  /\ \E blob \in { "null", "fits", "large" } :
       IF blob \in { "null", "fits" } \/ run.quality <= 50
       THEN run' = [pc |-> "readAsDataURL", h |-> "image",
                    encodings |-> run.encodings + 1]
       ELSE run' = [run EXCEPT !.quality = @ - 10, !.encodings = @ + 1]
  /\ UNCHANGED << serverVars, pairVars, upload, ui, dialog >>

\* reader.onloadend resolves base64Promise; fetch is sent.
Reader_onloadend ==
  /\ run.pc = "readAsDataURL"
  /\ run' = [pc |-> "fetch", h |-> "image"]
  /\ UNCHANGED << serverVars, pairVars, upload, ui, dialog >>

\* fetch settles and the handler runs to its end.
Fetch_settles ==
  /\ run.pc = "fetch"
  /\ \E a \in Answers :
       /\ ui' = Settled(run.h, a)
       /\ run' = [pc |-> "idle", last |-> a]
       /\ dialog' = IF Settled(run.h, a).showQuotaMessage
                    THEN Mounted(Settled(run.h, a).quotaRetrySeconds)
                    ELSE dialog
  /\ UNCHANGED << serverVars, pairVars, upload >>

\* onClose={() => setShowQuotaMessage(false)}: the dialog unmounts and its
\* effect cleanup clears the interval.
QuotaMessage_onClose ==
  /\ ui.showQuotaMessage
  /\ ui' = [ui EXCEPT !.showQuotaMessage = FALSE]
  /\ dialog' = Unmounted
  /\ UNCHANGED << serverVars, pairVars, upload, run >>

\* A tick that takes one off whatever is left and looks at the result only
\* afterwards.
QuotaMessage_tickLate ==
  /\ dialog.mounted /\ dialog.timer
  /\ dialog' = [dialog EXCEPT !.timeLeft = @ - 1, !.timer = dialog.timeLeft > 0]
  /\ UNCHANGED << serverVars, pairVars, upload, ui, run >>

\* One firing of the interval: setTimeLeft(prev => prev <= 0 ?
\* (clearInterval(timer), 0) : prev - 1).
QuotaMessage_tick ==
  /\ dialog.mounted /\ dialog.timer
  /\ dialog' = IF dialog.timeLeft <= 0
               THEN [dialog EXCEPT !.timeLeft = 0, !.timer = FALSE]
               ELSE [dialog EXCEPT !.timeLeft = @ - 1]
  /\ UNCHANGED << serverVars, pairVars, upload, ui, run >>

NextUI ==
  \/ handleImageChange
  \/ handleAddIngredient
  \/ removeIngredient
  \/ handleGenerateText
  \/ handleAnalyzeImage
  \/ Img_onload
  \/ Canvas_toBlob
  \/ Reader_onloadend
  \/ Fetch_settles
  \/ QuotaMessage_onClose
  \/ QuotaMessage_tick

\* The browser runs every callback that is ready: a decodable image loads,
\* toBlob and FileReader call back, fetch settles, the interval fires.
SpecUI ==
  /\ Init
  /\ [][NextUI]_vars
  /\ WF_vars(Img_onload)
  /\ WF_vars(Canvas_toBlob)
  /\ WF_vars(Reader_onloadend)
  /\ WF_vars(Fetch_settles)
  /\ WF_vars(QuotaMessage_tick)

\* ================================================================ claims
ServerlessHandlers ==
  { "netlify/analyze-image", "netlify/generate-recipe", "api/analyze-image",
    "api/generate-recipe", "part_003/analyze-image" }
ExpressHandlers ==
  { "server/generate-recipe", "server/analyze-image", "app/upload-image",
    "app/analyze-image-base64", "app/analyze-image", "app/analyze-image-upload",
    "app/generate-recipe" }
IngredientHandlers ==
  { "netlify/generate-recipe", "api/generate-recipe", "server/generate-recipe",
    "app/generate-recipe" }
MultipartHandlers ==
  { "netlify/analyze-image", "api/analyze-image", "part_003/analyze-image",
    "server/analyze-image", "app/analyze-image-upload" }

\* The current request is a POST (an app.post route sees nothing else).
IsPost == handler \in ExpressHandlers \/ (handler \in ServerlessHandlers /\ req.method = "POST")

Done == pc = "done"
Failed == outcome # None /\ ~outcome.ok
Succeeded == outcome # None /\ outcome.ok

\* C1: within one request generateContent is invoked at most once, so a failed
\* call is never followed by a second one.
C1_AtMostOneCall == Len(callLog) <= 1

\* C1 witness: a request whose single call failed has been answered.
C1_Witness == Done /\ Failed /\ Len(callLog) = 1 /\ resp.status >= 400

\* The request has reached the endpoint's own code: it was not answered by
\* the body-parsing middleware in front of an Express route.
ReachedHandler == Done => resp.body.kind # "html"

\* C2: with no credential configured every POST that reaches a recipe endpoint
\* is answered 500 {error} and generateContent is never invoked.
C2_NoCredentialNoCall ==
  (~apiKey /\ pc # "idle" /\ IsPost /\ ReachedHandler)
    => /\ callLog = << >>
       /\ Done => (resp.status = 500 /\ resp.body.kind = "error")

\* C3: a 200 response carries a value with every required Recipe field present
\* and non-empty (an empty or incomplete generated text is never answered 200).
C3_OkIsValidRecipe ==
  (Done /\ resp.status = 200) => ValidRecipe(resp.body.value)

\* The provider signals a quota failure: status 429, or "429" or "quota" in
\* the error message.
QuotaSignal(e) ==
  e.status = 429 \/ Includes(MessageOf(e), K_429) \/ Includes(MessageOf(e), K_quota)

\* C4: in every handler a generation failure with a quota signal is answered
\* 429 with the QUOTA_EXCEEDED body.
C4_QuotaIs429 ==
  (Done /\ Failed /\ QuotaSignal(outcome.err))
    => /\ resp.status = 429
       /\ resp.body.kind = "quota"
       /\ resp.body.error = "QUOTA_EXCEEDED"

\* What C5 says retryAfter is, stated on the text itself: a fragment
\* "retry in <number>s" spans s[i..j] when s[i..] starts with "retry in ",
\* s[j] is the "s", and between them stand digits, or digits "." digits.
C5_AllDigits(s, a, b) == a <= b /\ \A x \in a..b : s[x] \in Digits

RECURSIVE C5_Pow10(_)
C5_Pow10(n) == IF n = 0 THEN 1 ELSE 10 * C5_Pow10(n - 1)

RECURSIVE C5_Number(_, _, _)
C5_Number(s, a, b) ==
  IF a > b THEN 0
  ELSE DigitVal(s[a]) * C5_Pow10(b - a) + C5_Number(s, a + 1, b)

C5_PointAt(s, i, j) ==
  { d \in (i + 10)..(j - 2) :
      s[d] = "." /\ C5_AllDigits(s, i + 9, d - 1) /\ C5_AllDigits(s, d + 1, j - 1) }

C5_FragmentSpans(s, i, j) ==
  /\ i + 10 <= j /\ j <= Len(s)
  /\ SubSeq(s, i, i + 8) = K_retryin
  /\ s[j] = "s"
  /\ (C5_AllDigits(s, i + 9, j - 1) \/ C5_PointAt(s, i, j) # {})

\* n is the least integer not below the number of the fragment s[i..j].
C5_IsCeiling(s, i, j, n) ==
  IF C5_AllDigits(s, i + 9, j - 1) THEN n = C5_Number(s, i + 9, j - 1)
  ELSE LET d == CHOOSE x \in C5_PointAt(s, i, j) : TRUE
           scale == C5_Pow10(j - 1 - d)
           scaled == C5_Number(s, i + 9, d - 1) * scale + C5_Number(s, d + 1, j - 1)
       IN  n * scale >= scaled /\ (n - 1) * scale < scaled

C5_Expected(s, n) ==
  LET starts == { i \in 1..Len(s) : \E j \in 1..Len(s) : C5_FragmentSpans(s, i, j) }
  IN  IF starts = {} THEN n = 60
      ELSE LET i == CHOOSE x \in starts : \A y \in starts : x <= y
           IN  \E j \in 1..Len(s) : C5_FragmentSpans(s, i, j) /\ C5_IsCeiling(s, i, j, n)

\* C5: the retryAfter of a quota response is the ceiling of the number in the
\* first "retry in <number>s" fragment of the provider's text, 60 when there is
\* none, and both userMessage strings carry the same value.
C5_RetryAfter ==
  (Done /\ resp.status = 429)
    => /\ Failed
       /\ C5_Expected(MessageOf(outcome.err), resp.body.retryAfter)
       /\ resp.body.userMessage.ar.seconds = resp.body.retryAfter
       /\ resp.body.userMessage.en.seconds = resp.body.retryAfter

\* C5 witness: "retry in 12.5s" before "retry in 5s" has been answered with 13.
C5_Witness ==
  /\ Done /\ Failed /\ resp.status = 429
  /\ MessageOf(outcome.err) = F_retry12_5 \o F_retry5
  /\ resp.body.retryAfter = 13

\* The generated text is the serialization of v, bare or inside ```json
\* fences, with whitespace around.
C6_Serializes(text, v) ==
  \E w \in { "bare", "spaced", "fenced", "led_fenced", "fenced_trailed" } :
    text = Wrap(w, v)

\* C6: a generated text that serializes a valid Recipe, bare or fenced, is
\* answered 200 with exactly that Recipe.
C6_FencedRoundTrip ==
  (Done /\ Succeeded)
    => \A v \in JSONValues :
         (ValidRecipe(v) /\ C6_Serializes(outcome.text, v))
           => (resp.status = 200 /\ resp.body.value = v)

\* The image bytes a request carries, and whether none of them decodes.
C7_ImageData ==
  IF handler \in MultipartHandlers
  THEN { req.files[i].data : i \in ImageParts(req.files) }
  ELSE IF handler = "app/upload-image"
  THEN { req.form.files[i].data : i \in ImageParts(req.form.files) }
  ELSE IF handler = "app/analyze-image-base64"
  THEN IF req.body.t = "obj" /\ req.body.image.t = "str" THEN { req.body.image.data } ELSE { }
  ELSE IF handler = "app/analyze-image"
  THEN IF req.body.t = "obj" /\ req.body.imageUrl # Undefined
          /\ req.fetched \in { "jpeg", "corrupt" }
       THEN { req.fetched } ELSE { }
  ELSE { }

\* C7: an image request whose bytes do not decode ends in an error response
\* and generateContent is never invoked with those bytes.
C7_UndecodableNeverForwarded ==
  (pc # "idle" /\ C7_ImageData = { "corrupt" })
    => /\ \A i \in 1..Len(callLog) : callLog[i].image.data # "corrupt"
       /\ Done => resp.status # 200

\* The request carries neither an image nor a non-empty ingredient list, and
\* is otherwise well-formed (a multipart body, or a JSON object).
C8_CarriesNothing ==
  IF handler \in IngredientHandlers
  THEN req.body.t = "obj" /\ NoIngredients(req.body.ingredients)
  ELSE IF handler \in MultipartHandlers
  THEN req.multipart /\ req.files = << >>
  ELSE IF handler = "app/upload-image"
  THEN req.form.multipart /\ req.form.files = << >>
  ELSE IF handler = "app/analyze-image-base64"
  THEN req.body.t = "obj" /\ req.body.image.t = "undef"
  ELSE IF handler = "app/analyze-image"
  THEN req.body.t = "obj" /\ req.body.imageUrl = Undefined
  ELSE FALSE

\* C8: with a credential configured, a POST that carries neither an image nor
\* a non-empty ingredient list is answered 400 {error} and generateContent is
\* never invoked.
C8_NothingToCookIs400 ==
  (apiKey /\ pc # "idle" /\ IsPost /\ ReachedHandler /\ C8_CarriesNothing)
    => /\ callLog = << >>
       /\ Done => (resp.status = 400 /\ resp.body.kind = "error")

\* C9: with a credential configured, a POST to an ingredient endpoint whose
\* body is not well-formed JSON is answered 400, and generateContent is not
\* invoked.
C9_MalformedJsonIs400 ==
  (apiKey /\ pc # "idle" /\ handler \in IngredientHandlers /\ IsPost
     /\ req.body.t = "malformed")
    => /\ callLog = << >>
       /\ Done => resp.status = 400

\* The provider's text matches a credential keyword and nothing else a catch
\* block looks for.
C10_CredentialOnly(e) ==
  LET m == MessageOf(e)
  IN  /\ e.status = 0
      /\ \/ Includes(m, K_expired) \/ Includes(m, K_leaked)
         \/ Includes(m, K_APIkey) \/ Includes(m, K_referer)
      /\ ~Includes(m, K_429) /\ ~Includes(m, K_quota)
      /\ ~Includes(m, K_timedout) /\ ~Includes(m, K_limit)

\* The fixed credential messages of the source.
C10_FixedMessages ==
  { << "API key issue. Check Google AI Studio and Netlify GEMINI_API_KEY, then redeploy." >>,
    << "API key expired or invalid. Create a new key at Google AI Studio (aistudio.google.com/apikey), set GEMINI_API_KEY in Netlify Environment variables, then redeploy." >>,
    << "Invalid or missing GEMINI_API_KEY. Check Vercel -> Settings -> Environment Variables." >> }

\* C10: a provider failure whose text matches a credential keyword is answered
\* with the handler's one fixed message, whatever the text: the body holds no
\* part of the provider's text.
C10_CredentialErrorsFixed ==
  (Done /\ Failed /\ C10_CredentialOnly(outcome.err))
    => /\ resp.body.kind = "error"
       /\ resp.body.error \in C10_FixedMessages

\* The keywords the catch blocks look for, by error kind.
CredentialKeyword(m) ==
  \/ Includes(m, K_expired) \/ Includes(m, K_renew) \/ Includes(m, K_leaked)
  \/ Includes(m, K_APIkey) \/ Includes(m, K_INVALID) \/ Includes(m, K_referer)
TimeoutKeyword(m) ==
  \/ Includes(m, K_timedout) \/ Includes(m, K_Timeout) \/ Includes(m, K_Sandbox)
  \/ Includes(m, K_timeout) \/ Includes(m, K_tooklong)

\* The fixed timeout and payload-size messages of the source.
TimeoutMessages ==
  { << "Request took too long. Try a smaller image or try again." >>,
    << "Request timed out. Try a smaller image or check your internet connection." >> }
SizeMessages ==
  { << "Image or request payload too large (Vercel limit ~4.5MB). Compress more or use smaller photo." >> }

\* C11: a provider failure whose text matches several kinds is reported as the
\* first of QuotaExceeded, InvalidCredential, RequestTimeout, UpstreamFailure:
\* a text with a quota signal is never answered with a timeout or payload-size
\* message, and a text with a credential and a timeout keyword is answered
\* with the credential message.
C11_Precedence ==
  (Done /\ Failed /\ outcome.err.origin = "provider")
    => LET e == outcome.err
           m == MessageOf(e)
       IN  /\ QuotaSignal(e)
                => ~(resp.body.kind = "error"
                     /\ resp.body.error \in TimeoutMessages \cup SizeMessages)
           /\ (~QuotaSignal(e) /\ CredentialKeyword(m) /\ TimeoutKeyword(m))
                => (resp.body.kind = "error" /\ resp.body.error \in C10_FixedMessages)

\* C12: once the budget of the generation call is spent the handler has
\* stopped waiting: it has answered with the timeout error, after its one call.
C12_TimeoutAnswered ==
  budget = "spent"
    => /\ Done
       /\ resp.body.kind = "error"
       /\ resp.body.error \in TimeoutMessages
       /\ Len(callLog) = 1

C13_Max(a, b) == IF a >= b THEN a ELSE b
C13_Abs(a) == IF a >= 0 THEN a ELSE 0 - a

\* C13: the picture sent with a generation call fits an 800 x 800 box, is no
\* larger than the decodable source in either dimension, keeps its aspect
\* ratio up to rounding, is the source size when that already fits, and is
\* left unchanged by normalizing it again.
C13_ResizeBound ==
  \A i \in 1..Len(callLog) :
    callLog[i].image.data = "jpeg"
      => LET sent == callLog[i].image
             src == SourceSize("jpeg")
         IN  /\ C13_Max(sent.width, sent.height) <= 800
             /\ sent.width <= src.w /\ sent.height <= src.h
             /\ C13_Abs(sent.width * src.h - sent.height * src.w) <= C13_Max(src.w, src.h)
             /\ C13_Max(src.w, src.h) <= 800
                  => (sent.width = src.w /\ sent.height = src.h)
             /\ FitInside(sent.width, sent.height, 800)
                  = [w |-> sent.width, h |-> sent.height]

\* The file parts whose bytes the handler of the current multipart request
\* collects in memory.
C14_Buffered ==
  IF handler = "netlify/analyze-image" THEN Netlify_parseMultipart(req).buffered
  ELSE IF handler = "api/analyze-image" THEN Vercel_analyze_parseForm(req).buffered
  ELSE IF handler = "part_003/analyze-image" THEN Old_analyze_parseForm(req).buffered
  ELSE { }

\* C14: of several file parts named image the first in the body is the one
\* sent with the generation call, and no later file part is collected in memory.
C14_FirstImageOnly ==
  (handler \in MultipartHandlers /\ callLog # << >>)
    => LET first == CHOOSE i \in ImageParts(req.files) :
                      \A j \in ImageParts(req.files) : i <= j
       IN  /\ callLog[1].image.part = first
           /\ \A i \in C14_Buffered : i <= first

\* C15: the body of a 200 response to an ingredient-mode request has no
\* detectedIngredients field, whatever the generated text was.
C15_NoDetectedInIngredientMode ==
  (Done /\ handler \in IngredientHandlers /\ resp.status = 200
     /\ resp.body.kind = "json" /\ resp.body.value.t = "obj")
    => "detectedIngredients" \notin DOMAIN resp.body.value.o

\* C16: every generation request carries the Recipe output contract, as the
\* attached response schema or as the JSON skeleton in the instruction text.
C16_SchemaOrSkeleton ==
  \A i \in 1..Len(callLog) : callLog[i].schema \/ callLog[i].prompt.skeleton

\* C17: a serverless handler answers OPTIONS with 204 and an empty body, and
\* any other method that is not POST with 405 {error}, whatever the body
\* holds, without a generation call.
C17_MethodGate ==
  (pc # "idle" /\ handler \in ServerlessHandlers /\ req.method # "POST")
    => /\ Done
       /\ callLog = << >>
       /\ outcome = None
       /\ IF req.method = "OPTIONS"
          THEN resp.status = 204 /\ resp.body.kind = "empty"
          ELSE /\ resp.status = 405
               /\ resp.body.kind = "error"
               /\ resp.body.error \in { << "Method not allowed" >>,
                                        << "Method not allowed. Use POST." >> }

\* C17 witness: a GET with a body that is no JSON has been refused with 405.
C17_Witness ==
  /\ Done /\ handler = "netlify/generate-recipe"
  /\ req.method = "GET" /\ req.body.t = "malformed"
  /\ resp.status = 405 /\ callLog = << >>

\* The response was written by the code of a recipe handler (not by a
\* middleware in front of it, by the platform, or not at all).
WrittenByHandler == Done /\ resp.body.kind \in { "empty", "error", "json", "quota" }

\* C18: every response a recipe handler writes, whatever its status, carries
\* Access-Control-Allow-Origin: * and Content-Type: application/json.
C18_Headers ==
  WrittenByHandler
    => /\ resp.status \in { 200, 204, 400, 405, 429, 500 }
       /\ "Access-Control-Allow-Origin" \in DOMAIN resp.headers
       /\ resp.headers["Access-Control-Allow-Origin"] = "*"
       /\ "Content-Type" \in DOMAIN resp.headers
       /\ resp.headers["Content-Type"] = "application/json"

\* C18 witness: a 405 refusal of a serverless handler has been written with
\* the headers.
C18_Witness ==
  /\ WrittenByHandler /\ handler = "api/generate-recipe"
  /\ resp.status = 405
  /\ resp.headers["Content-Type"] = "application/json"

\* C19: with a credential configured, a POST to a multipart image endpoint
\* whose content type is not multipart/form-data is answered 400, and
\* generateContent is not invoked.
C19_NotMultipartIs400 ==
  (apiKey /\ pc # "idle" /\ handler \in MultipartHandlers /\ IsPost
     /\ ~req.multipart)
    => /\ callLog = << >>
       /\ Done => resp.status = 400

\* A provider error with a plain, non-empty text that holds no quota,
\* credential or timeout keyword of any catch block.
C20_Unclassified(e) ==
  LET m == MessageOf(e)
  IN  /\ e.origin = "provider" /\ ~e.json /\ m # << >>
      /\ ~QuotaSignal(e)
      /\ ~CredentialKeyword(m) /\ ~Includes(m, K_key) /\ ~Includes(m, K_API)
      /\ ~TimeoutKeyword(m)

\* C20: a provider failure that matches no quota, credential or timeout
\* keyword is answered 500 with the provider's message, unmodified, as the
\* error field.
C20_UpstreamPassedThrough ==
  (Done /\ Failed /\ C20_Unclassified(outcome.err))
    => /\ resp.status = 500
       /\ resp.body.kind = "error"
       /\ resp.body.error = MessageOf(outcome.err)

\* What invocation s would do handled alone, from the request the client sent.
C21_Alone(s) == PairBefore(slots[s].handler, slots[s].req)

\* C21: whatever the other invocation does in between, an invocation makes the
\* call and gives the answer it would make and give alone with the same
\* generation outcome.
C21_Isolation ==
  \A s \in Slots :
    /\ slots[s].pc = "calling"
         => (C21_Alone(s).t = "call" /\ slots[s].call = C21_Alone(s).call)
    /\ slots[s].pc = "done"
         => IF slots[s].called
            THEN /\ C21_Alone(s).t = "call"
                 /\ slots[s].call = C21_Alone(s).call
                 /\ slots[s].resp = PairAfter(slots[s].handler, slots[s].outcome)
            ELSE /\ C21_Alone(s).t = "reply"
                 /\ slots[s].resp = C21_Alone(s).resp

\* C21 witness: invocation 1 has answered 200 while invocation 2, of another
\* handler with another request, is still awaiting its call.
C21_Witness ==
  /\ slots[1].pc = "done" /\ slots[1].called /\ slots[1].resp.status = 200
  /\ slots[2].pc = "calling"
  /\ slots[1].handler # slots[2].handler

\* The field f (cuisineType, language) the request in hand gives.
C22_Given(f) ==
  IF handler \in IngredientHandlers THEN Member(req.body, f) ELSE req[f]

\* C22: in ingredient mode and in multipart image mode, the instruction text
\* of every generation call names "Middle Eastern" when the request omits
\* cuisineType, asks for Arabic when language is "ar" and for English when
\* language is omitted or anything else.
C22_PromptDefaults ==
  (handler \in IngredientHandlers \cup MultipartHandlers)
    => \A i \in 1..Len(callLog) :
         /\ C22_Given("cuisineType") = Undefined
              => callLog[i].prompt.cuisine = "Middle Eastern"
         /\ callLog[i].prompt.language =
              (IF C22_Given("language") = "ar" THEN "Arabic" ELSE "English")

\* C23: what a handler passes on to image decoding or to JSON parsing is the
\* whole body that was sent, never a shorter prefix of it.
C23_NeverTruncated ==
  upload.pc = "passed" => upload.passed = upload.size

\* C24: on the Express server a POST to /api/analyze-image-base64 whose
\* generation call fails with a text holding "429" and "retry in 5s" is
\* answered 429 with retryAfter 5.
C24_Base64QuotaIs429 ==
  (Done /\ handler = "app/analyze-image-base64" /\ Failed
     /\ Includes(MessageOf(outcome.err), K_429)
     /\ Includes(MessageOf(outcome.err), F_retry5))
    => /\ resp.status = 429
       /\ resp.body.kind = "quota"
       /\ resp.body.retryAfter = 5

\* C25: a serverless handler checks the method, then the credential, then the
\* request: a request that is not a POST is answered 204 or 405 with or
\* without a credential, and a POST without a credential is answered 500
\* whatever its body holds, with no generation call.
C25_CheckOrder ==
  (pc # "idle" /\ handler \in ServerlessHandlers)
    => /\ req.method # "POST"
            => (Done /\ resp.status \in { 204, 405 } /\ callLog = << >>)
       /\ (req.method = "POST" /\ ~apiKey)
            => (Done /\ resp.status = 500 /\ callLog = << >>)

\* C25 witness: without a credential, an ingredient request with nothing to
\* cook, or a multipart request with no image part, has been answered 500.
C25_Witness ==
  /\ Done /\ ~apiKey /\ handler \in ServerlessHandlers /\ req.method = "POST"
  /\ resp.status = 500
  /\ \/ handler = "netlify/generate-recipe" /\ req.body.t = "obj"
        /\ NoIngredients(req.body.ingredients)
     \/ handler = "netlify/analyze-image" /\ ImageParts(req.files) = {}

\* C26: every invocation of a serverless handler ends with a response the
\* handler wrote; no exception leaves the handler, whatever the body parses
\* to and whatever the generation outcome is.
C26_NothingEscapes ==
  (Done /\ handler \in ServerlessHandlers) => resp.body.kind # "uncaught"

\* C27: a multipart POST that carries a file part named "image" is never
\* answered 400 "No image uploaded" by a busboy-based handler.
C27_ImageNeverMissed ==
  (Done /\ handler \in { "netlify/analyze-image", "api/analyze-image",
                         "part_003/analyze-image" }
     /\ req.method = "POST" /\ apiKey /\ req.multipart
     /\ ImageParts(req.files) # {})
    => resp.status # 400

\* How many of the three outcomes the page shows.
C28_Shown ==
  { o \in { "recipe", "error", "quota" } :
      \/ o = "recipe" /\ ui.recipe # None
      \/ o = "error" /\ ui.error # None
      \/ o = "quota" /\ ui.showQuotaMessage }

\* The retryAfter member of a response body, 60 when it has none.
C28_RetryAfter(r) == IF r.body.kind = "quota" THEN r.body.retryAfter ELSE 60

\* C28: with no run in progress the page shows at most one of recipe, error
\* and quota dialog; and a run that ends on a 429 response opens the quota
\* dialog with retrySeconds equal to the response's retryAfter (60 when it has
\* none), leaving recipe and error unset.
C28_OneOutcome ==
  /\ [](run.pc = "idle" => Cardinality(C28_Shown) <= 1)
  /\ [][(run.pc = "fetch" /\ run'.pc = "idle" /\ run'.last.t = "response"
           /\ run'.last.resp.status = 429)
          => /\ ui'.showQuotaMessage
             /\ ui'.quotaRetrySeconds = C28_RetryAfter(run'.last.resp)
             /\ ui'.recipe = None /\ ui'.error = None]_vars

\* C29: a run of handleAnalyzeImage that has set loading to true sets it back
\* to false, whatever file was picked and whatever the server answers.
C29_LoadingEnds ==
  [](( ui.loading /\ run.pc # "idle" /\ run.h = "image") => <>(~ui.loading))

\* C30: the quota dialog's timeLeft starts at retrySeconds; while the dialog
\* is mounted it changes only by going down by exactly 1 from a positive
\* value, so it is never negative and, once 0, stays 0; unless the dialog is
\* closed it reaches 0; the interval is cleared once 0 has been reached and
\* whenever the dialog is not mounted.
C30_Countdown ==
  /\ [][(~dialog.mounted /\ dialog'.mounted)
          => dialog'.timeLeft = ui'.quotaRetrySeconds]_vars
  /\ [][(dialog.mounted /\ dialog'.mounted /\ dialog'.timeLeft # dialog.timeLeft)
          => (dialog.timeLeft > 0 /\ dialog'.timeLeft = dialog.timeLeft - 1)]_vars
  /\ [][(dialog.mounted /\ dialog.timer /\ dialog.timeLeft > 0 /\ dialog'.mounted
           /\ dialog' # dialog)
          => dialog'.timeLeft = dialog.timeLeft - 1]_vars
  /\ [](dialog.mounted => dialog.timeLeft >= 0)
  /\ [](dialog.mounted => <>(~dialog.mounted \/ dialog.timeLeft = 0))
  /\ []((dialog.mounted /\ dialog.timeLeft = 0) => <>(~dialog.timer))
  /\ [](~dialog.mounted => ~dialog.timer)
  /\ []((dialog.mounted /\ ~dialog.timer) => dialog.timeLeft = 0)

\* C30 witness: a dialog opened for 5 seconds has counted down to 0 and its
\* interval has been cleared.
C30_Witness ==
  /\ dialog.mounted /\ dialog.timeLeft = 0 /\ ~dialog.timer
  /\ ui.showQuotaMessage /\ ui.quotaRetrySeconds = 5
====
